---- MODULE Spec2Model ----
(***************************************************************************)
(* Model of src/server/latex_server.py: the file-sync handler              *)
(* (api_sync_files) and the compilation handler (compile_real_logic),      *)
(* with the file system and the external toolchain as the environment.     *)
(***************************************************************************)
EXTENDS Integers, Sequences, FiniteSets, TLC

\* ------------------------------------------------------------------ bounds

\* Requests admitted over a run of the server.
MaxRequests == 2

\* ------------------------------------------------------------------- paths
\* A path is a sequence of segments; a segment is [stem, ext] (pathlib's
\* stem and suffix).  An absolute path starts with the root segment.

Seg(s, e) == [stem |-> s, ext |-> e]

RootSeg == Seg("/", "")

DotDot == Seg("..", "")

\* Segments whose text contains the two characters ".."
DotDotSegs == {DotDot, Seg("v1..2", "tex")}

\* Path.is_absolute()
is_absolute(p) == Len(p) > 0 /\ p[1] = RootSeg

\* '..' in str(path): a substring test on the path's text
has_dotdot(p) == \E i \in 1..Len(p) : p[i] \in DotDotSegs

\* pathlib's a / b: an absolute right operand replaces the left one
Join(a, b) == IF is_absolute(b) THEN b ELSE a \o b

\* Path(p).stem: the stem of the last segment ("" for the empty path)
Stem(p) == IF Len(p) = 0 THEN "" ELSE p[Len(p)].stem

\* The directory the server runs in; relative paths are taken from it.
Cwd == <<RootSeg, Seg("srv", "")>>

\* The file the operating system opens for a path: relative paths start at
\* Cwd and each ".." segment steps to the parent directory.
RECURSIVE Walk(_, _)
Walk(at, p) ==
    IF Len(p) = 0 THEN at
    ELSE IF p[1] = DotDot
         THEN Walk(IF Len(at) > 1 THEN SubSeq(at, 1, Len(at) - 1) ELSE at, Tail(p))
         ELSE Walk(Append(at, p[1]), Tail(p))

Locate(p) == IF is_absolute(p) THEN Walk(<<RootSeg>>, Tail(p)) ELSE Walk(Cwd, p)

\* loc lies inside directory dir (or is dir itself)
Inside(loc, dir) == Len(loc) >= Len(dir) /\ SubSeq(loc, 1, Len(dir)) = dir

Workers == {"w1", "w2"}

\* tempfile.TemporaryDirectory(): an absolute directory private to the request
TempDir(w) == <<RootSeg, Seg("tmp", ""), Seg(w, "")>>

\* PROJECTS_CACHE_DIR / project_id: the directory is named at line 130 and
\* no handler reads, makes or writes it.
ProjectsCacheDir(project_id) == <<Seg("projects_cache", ""), Seg(project_id, "")>>

\* Path("Synced_Projects") / project_id
TargetDir(project_id) == <<Seg("Synced_Projects", ""), Seg(project_id, "")>>


\* ---------------------------------------------------------------- requests

MainTex == <<Seg("main", "tex")>>
SubMainTex == <<Seg("sub", ""), Seg("main", "tex")>>
EvilTex == <<DotDot, Seg("evil", "tex")>>
AbsTex == <<RootSeg, Seg("etc", ""), Seg("abs", "tex")>>
OddTex == <<Seg("v1..2", "tex")>>
ImgPng == <<Seg("img", "png")>>
EvilPng == <<DotDot, Seg("img", "png")>>
\* a document that is on the host before any request, outside every workspace
HostTex == <<RootSeg, Seg("srv", ""), Seg("paper", "tex")>>
EmptyPath == << >>
ChapterTex == <<Seg("chapter", "tex")>>

File(p, c) == [path |-> p, content |-> c]

\* "files" of a request, in the order of the JSON object.  Text contents:
\* "doc" contains \documentclass, "plain" does not.
TextFileSets ==
    { << >>,
      <<File(MainTex, "doc")>>,
      <<File(MainTex, "doc"), File(EvilTex, "doc")>>,
      <<File(AbsTex, "doc"), File(SubMainTex, "plain")>>,
      <<File(OddTex, "plain")>> }

\* "binaryFiles" of a request.  Payloads: "b64" decodes, "hdr,b64" is a data
\* URL whose part after the comma decodes, "badpad" has incorrect padding.
BinaryFileSets ==
    { << >>,
      <<File(ImgPng, "hdr,b64")>>,
      <<File(ImgPng, "badpad")>>,
      <<File(EvilPng, "b64")>> }

Projects == {"p", "q"}

\* b64_content.split(',')[1] when ',' in b64_content
StripHeader(b64) == IF b64 = "hdr,b64" THEN "b64" ELSE b64

\* base64.b64decode raises binascii.Error on incorrect padding
B64Decodes(b64) == b64 = "b64"

\* ------------------------------------------------------------------- state

VARIABLES
    pc,          \* per worker: the place of its request in the handler
    req,         \* per worker: the request being served
    idx,         \* per worker: entries of the current loop already visited
    saved_count, \* per worker: api_sync_files' saved_count
    written,     \* per worker: files the current request opened for writing
    fs,          \* the file system: location -> content of every file
    dirs,        \* directories made by mkdir / TemporaryDirectory
    main_file,   \* per worker: compile_real_logic's main_file
    needs_bib,   \* per worker: compile_real_logic's needs_bib
    full_log,    \* per worker: compile_real_logic's full_log, as its parts
    calls,       \* per worker: subprocess.run calls of the request, in order
    result,      \* per worker: the response of the request
    admitted,    \* requests received so far
    online,      \* FIREBASE_INITIALIZED
    db,          \* the Realtime Database: uid -> the node users/{uid}
    http,        \* per worker: route, Authorization header and plan of the request
    user,        \* per worker: request.user['uid']
    got,         \* per worker: what the handler's ref.get() returned
    ledger       \* history, per uid: credits begun with, bought and consumed

\* The state of the credit system
saas == <<online, db, http, user, got, ledger>>

vars == <<pc, req, idx, saved_count, written, fs, dirs, main_file, needs_bib,
          full_log, calls, result, admitted, online, db, http, user, got, ledger>>

\* ------------------------------------------------------ the credit system

\* The uids that ID tokens are issued for
Uids == {"u", "v"}

\* request.user of the offline server: line 155
LocalDevUser == "local_dev_user"

\* request.user before check_auth has set it
NoUid == ""

\* An Authorization header: the text before the first space and the rest
Header(s, t) == [scheme |-> s, token |-> t]

\* request.headers.get('Authorization') is None
NoHeader == Header("", "")

Authorizations ==
    {NoHeader, Header("Basic", "tok_u"), Header("Bearer", "expired"),
     Header("Bearer", "tok_u"), Header("Bearer", "tok_v")}

\* auth_header and auth_header.startswith('Bearer '): line 160
HasBearer(h) == h.scheme = "Bearer"

\* The ID tokens that verify, each with the uid it was issued for
Issued == [tok_u |-> "u", tok_v |-> "v"]

\* verify_id_token as it would be if the token were decoded and not verified
decode_id_token(token) == IF token = "tok_v" THEN {"v"} ELSE {"u"}

\* auth.verify_id_token(token): the uid of the decoded token, or no uid at
\* all when the call raises
verify_id_token(token) ==
    IF token \in DOMAIN Issued THEN {Issued[token]} ELSE {}

\* PLANS[plan]['initialCredits']: lines 137-141
PLANS == [free |-> 10, basic |-> 100, pro |-> 1000, unlimited |-> 999999]

\* PLANS.get(plan, PLANS['free'])['initialCredits']: line 357
PlanCredits(plan) == IF plan \in DOMAIN PLANS THEN PLANS[plan] ELSE PLANS["free"]

\* "plan" of a purchase body: absent, a plan of PLANS, a name PLANS has not
PurchasePlans == {{}, {"basic"}, {"gold"}}

\* What of an HTTP request the credit system reads
Http(r, h, p) == [route |-> r, authorization |-> h, plan |-> p]

NoHttp == Http("", NoHeader, {})

\* users/{uid}/subscription
Subscription(p, s, t) == [plan |-> p, status |-> s, isTrial |-> t]

\* The node users/{uid}; each key holds no value (the key is absent) or one
User(c, p, s, l) == [credits |-> c, plan |-> p, subscription |-> s, lastLogin |-> l]

\* A node without keys is no node: user_ref.get() returns None
NoUser == User({}, {}, {}, {})

\* The record api_auth_sync makes for a new user at time t: lines 273-287
Trial(t) == User({PLANS["free"]}, {"free"}, {Subscription("free", "active", TRUE)}, {t})

\* What the database may hold for a uid when the server starts: nothing, a
\* record from before credits were kept, a record with no credit left or one
InitialUsers ==
    {NoUser} \cup
    {User(c, {"free"}, {Subscription("free", "active", TRUE)}, {0}) : c \in {{}, {0}, {1}}}

\* The ledger of a uid whose record is rec at the start: it begins with
\* the credits of the record, or with the free plan's when it has none
Began(rec) ==
    [start |-> IF rec.credits = {} THEN PLANS["free"]
               ELSE CHOOSE c \in rec.credits : TRUE,
     bought |-> 0,
     spent |-> 0]

NoRequest ==
    [handler |-> "none", projectId |-> "p", files |-> << >>, binaryFiles |-> << >>,
     mainFile |-> {}, engine |-> {}, is_json |-> TRUE,
     source_zip |-> FALSE, delta |-> FALSE, deleted |-> {}]

NoResult == [status |-> 0, kind |-> "none", logs |-> FALSE]

Response(s, k, l) == [status |-> s, kind |-> k, logs |-> l]

\* The responses compile_real_logic makes: the PDF or a JSON error
StructuredResults ==
    {Response(200, "pdf", FALSE), Response(400, "no_pdf", TRUE),
     Response(400, "main_not_found", FALSE), Response(408, "timeout", FALSE),
     Response(415, "zip_deprecated", FALSE), Response(500, "internal", FALSE)}

\* Files on the host before the server starts.
InitFs == (Locate(HostTex) :> "doc")

\* The handlers' state when the server has started
InitHandlers ==
    /\ pc = [w \in Workers |-> "idle"]
    /\ req = [w \in Workers |-> NoRequest]
    /\ idx = [w \in Workers |-> 0]
    /\ saved_count = [w \in Workers |-> 0]
    /\ written = [w \in Workers |-> {}]
    /\ fs = InitFs
    /\ dirs = {}
    /\ main_file = [w \in Workers |-> MainTex]
    /\ needs_bib = [w \in Workers |-> FALSE]
    /\ full_log = [w \in Workers |-> << >>]
    /\ calls = [w \in Workers |-> << >>]
    /\ result = [w \in Workers |-> NoResult]
    /\ admitted = 0
    /\ http = [w \in Workers |-> NoHttp]
    /\ user = [w \in Workers |-> NoUid]
    /\ got = [w \in Workers |-> NoUser]

\* The server started without credentials: offline mode, lines 111-112
Init ==
    /\ InitHandlers
    /\ online = FALSE
    /\ db = [u \in Uids |-> NoUser]
    /\ ledger = [u \in Uids |-> Began(NoUser)]

\* ------------------------------------------------------------- file system

\* open(path, 'w') and write: creates or replaces the file at the location
WriteFile(f, loc, content) == (loc :> content) @@ f

\* shutil.rmtree / TemporaryDirectory cleanup: every file inside dir goes
RemoveTree(f, dir) ==
    LET keep == {l \in DOMAIN f : ~Inside(l, dir)} IN [l \in keep |-> f[l]]

\* Path.exists(): a file, a directory that was made, or a directory holding a file
Exists(f, d, p) ==
    LET loc == Locate(p) IN
        \/ loc \in DOMAIN f
        \/ loc \in d
        \/ \E l \in DOMAIN f : Inside(l, loc)

\* ------------------------------------------------------------ api_sync_files

\* The check of lines 424 and 436: the entry is skipped when it holds.
SyncSkips(rel_path) == is_absolute(rel_path) \/ has_dotdot(rel_path)

\* A delta as the caller means it: chapter.tex, with the document class, is
\* added and main.tex is to be deleted.  No handler reads the "delta" and
\* "deleted" keys of a body.
AsDelta(r) ==
    [r EXCEPT !.files = <<File(ChapterTex, "doc")>>, !.binaryFiles = << >>,
              !.delta = TRUE, !.deleted = {MainTex}]

\* The bodies POST /api/sync is given
SyncRequests ==
    {[NoRequest EXCEPT !.handler = "sync", !.projectId = p, !.files = t,
                       !.binaryFiles = b] :
        p \in Projects, t \in TextFileSets, b \in BinaryFileSets}
    \cup
    {AsDelta([NoRequest EXCEPT !.handler = "sync", !.projectId = p]) : p \in Projects}

\* POST /api/sync arrives: lines 408-419
SyncBegin(w) ==
    /\ pc[w] = "idle"
    /\ admitted < MaxRequests
    /\ \E r \in SyncRequests :
          /\ req' = [req EXCEPT ![w] = r]
          /\ dirs' = dirs \cup {Locate(TargetDir(r.projectId))}
    /\ admitted' = admitted + 1
    /\ pc' = [pc EXCEPT ![w] = "sync_text"]
    /\ UNCHANGED <<idx, saved_count, written, result, fs, main_file, needs_bib,
                   full_log, calls>>
    /\ UNCHANGED saas

\* One iteration of "for rel_path, content in files.items()": lines 422-431
SyncText(w) ==
    /\ pc[w] = "sync_text"
    /\ idx[w] < Len(req[w].files)
    /\ LET e == req[w].files[idx[w] + 1]
           file_path == Join(TargetDir(req[w].projectId), e.path)
       IN  IF SyncSkips(e.path)
           THEN UNCHANGED <<fs, saved_count, written>>
           ELSE /\ fs' = WriteFile(fs, Locate(file_path), e.content)
                /\ saved_count' = [saved_count EXCEPT ![w] = @ + 1]
                /\ written' = [written EXCEPT ![w] = @ \cup {Locate(file_path)}]
    /\ idx' = [idx EXCEPT ![w] = @ + 1]
    /\ UNCHANGED <<pc, req, dirs, main_file, needs_bib, full_log, calls, result, admitted>>
    /\ UNCHANGED saas

\* The text loop is over: on to the binary files
SyncTextDone(w) ==
    /\ pc[w] = "sync_text"
    /\ idx[w] = Len(req[w].files)
    /\ pc' = [pc EXCEPT ![w] = "sync_binary"]
    /\ idx' = [idx EXCEPT ![w] = 0]
    /\ UNCHANGED <<req, saved_count, written, fs, dirs, main_file, needs_bib,
                   full_log, calls, result, admitted>>
    /\ UNCHANGED saas

\* One iteration of "for rel_path, b64_content in binary_files.items()":
\* lines 434-450.  open(file_path, 'wb') truncates the file before
\* b64decode runs, so a payload that does not decode leaves an empty file.
SyncBinary(w) ==
    /\ pc[w] = "sync_binary"
    /\ idx[w] < Len(req[w].binaryFiles)
    /\ LET e == req[w].binaryFiles[idx[w] + 1]
           file_path == Join(TargetDir(req[w].projectId), e.path)
           b64 == StripHeader(e.content)
       IN  IF SyncSkips(e.path)
           THEN UNCHANGED <<fs, saved_count, written>>
           ELSE /\ written' = [written EXCEPT ![w] = @ \cup {Locate(file_path)}]
                /\ IF B64Decodes(b64)
                   THEN /\ fs' = WriteFile(fs, Locate(file_path), "bin")
                        /\ saved_count' = [saved_count EXCEPT ![w] = @ + 1]
                   ELSE /\ fs' = WriteFile(fs, Locate(file_path), "empty")
                        /\ UNCHANGED saved_count
    /\ idx' = [idx EXCEPT ![w] = @ + 1]
    /\ UNCHANGED <<pc, req, dirs, main_file, needs_bib, full_log, calls, result, admitted>>
    /\ UNCHANGED saas

\* Lines 452-453: the response
SyncRespond(w) ==
    /\ pc[w] = "sync_binary"
    /\ idx[w] = Len(req[w].binaryFiles)
    /\ result' = [result EXCEPT ![w] = Response(200, "synced", FALSE)]
    /\ pc' = [pc EXCEPT ![w] = "done"]
    /\ UNCHANGED <<req, idx, saved_count, written, fs, dirs, main_file, needs_bib,
                   full_log, calls, admitted>>
    /\ UNCHANGED saas

\* The response has been sent and the request's locals are gone; the worker
\* takes the next request.
Finish(w) ==
    /\ pc[w] = "done"
    /\ pc' = [pc EXCEPT ![w] = "idle"]
    /\ req' = [req EXCEPT ![w] = NoRequest]
    /\ idx' = [idx EXCEPT ![w] = 0]
    /\ saved_count' = [saved_count EXCEPT ![w] = 0]
    /\ written' = [written EXCEPT ![w] = {}]
    /\ main_file' = [main_file EXCEPT ![w] = MainTex]
    /\ needs_bib' = [needs_bib EXCEPT ![w] = FALSE]
    /\ full_log' = [full_log EXCEPT ![w] = << >>]
    /\ calls' = [calls EXCEPT ![w] = << >>]
    /\ result' = [result EXCEPT ![w] = NoResult]
    /\ http' = [http EXCEPT ![w] = NoHttp]
    /\ user' = [user EXCEPT ![w] = NoUid]
    /\ got' = [got EXCEPT ![w] = NoUser]
    /\ UNCHANGED <<fs, dirs, admitted, online, db, ledger>>

api_sync_files(w) ==
    \/ SyncBegin(w)
    \/ SyncText(w)
    \/ SyncTextDone(w)
    \/ SyncBinary(w)
    \/ SyncRespond(w)

\* -------------------------------------------------------- compile_real_logic

\* "mainFile" values a request may carry (absent: the empty set)
MainFileHints == {{}, {EmptyPath}, {HostTex}, {SubMainTex}}

\* "engine" values a request may carry (absent: the empty set)
EngineNames == {{}, {"xelatex"}, {"sh"}}

\* data.get(key, default)
GetOr(field, default) == IF field = {} THEN default ELSE CHOOSE x \in field : TRUE

\* work_dir = Path(temp_dir)
work_dir(w) == TempDir(w)

\* Lines 497-498 and 505-506: file_path = work_dir / filename is tested, not
\* filename, and the entry is skipped when the test holds.
CompileSkips(dir, filename) == is_absolute(Join(dir, filename))

\* aux_file and pdf_path: lines 571 and 626-627
aux_file(w) == Join(work_dir(w), <<Seg(Stem(main_file[w]), "aux")>>)
pdf_path(w) == Join(work_dir(w), <<Seg(Stem(main_file[w]), "pdf")>>)

\* work_dir.glob('**/*.tex'): the .tex files inside the work directory
TexFiles(f, dir) ==
    {l \in DOMAIN f : Inside(l, dir) /\ Len(l) > Len(dir) /\ l[Len(l)].ext = "tex"}

\* tex_file.relative_to(work_dir)
RelativeTo(loc, dir) == SubSeq(loc, Len(dir) + 1, Len(loc))

\* LeaveTempDir as it would be for a directory made with mkdtemp and never removed
LeaveTempDirBehind(w) == UNCHANGED <<fs, dirs>>

\* Leaving the "with tempfile.TemporaryDirectory()" block by any return or
\* exception removes the directory and all it holds.
LeaveTempDir(w) ==
    /\ fs' = RemoveTree(fs, work_dir(w))
    /\ dirs' = dirs \ {work_dir(w)}

\* A return from the handler with response r
Return(w, r) ==
    /\ result' = [result EXCEPT ![w] = r]
    /\ pc' = [pc EXCEPT ![w] = "done"]

CompileRequest(p, t, b, m, e, j, z) ==
    [handler |-> "compile", projectId |-> p, files |-> t, binaryFiles |-> b,
     mainFile |-> m, engine |-> e, is_json |-> j, source_zip |-> z,
     delta |-> FALSE, deleted |-> {}]

\* The requests POST /api/compile is given: JSON bodies that vary the files
\* under the default main file and engine, JSON bodies that vary the main
\* file and the engine, and form posts, with a ZIP upload or without.
CompileRequests ==
    {CompileRequest(p, t, b, {}, {}, TRUE, FALSE) :
        p \in Projects, t \in TextFileSets, b \in BinaryFileSets}
    \cup
    {CompileRequest("p", t, << >>, m, e, TRUE, FALSE) :
        t \in {<< >>, <<File(MainTex, "doc")>>, <<File(AbsTex, "doc"), File(SubMainTex, "plain")>>},
        m \in MainFileHints, e \in EngineNames}
    \cup
    {CompileRequest("temp_project", << >>, << >>, m, e, FALSE, FALSE) :
        m \in MainFileHints, e \in EngineNames}
    \cup
    {CompileRequest("temp_project", << >>, << >>, {}, {}, FALSE, TRUE)}
    \cup
    {AsDelta(CompileRequest(p, << >>, << >>, {}, {}, TRUE, FALSE)) : p \in Projects}
    \cup
    {CompileRequest("p", <<File(OddTex, "doc"), File(ChapterTex, "doc")>>, << >>,
                    {}, {}, TRUE, FALSE)}

\* POST /api/compile reaches compile_real_logic: lines 465-493
CompileStart(w, r) ==
    /\ req' = [req EXCEPT ![w] = r]
    /\ main_file' = [main_file EXCEPT ![w] = GetOr(r.mainFile, MainTex)]
    /\ IF ~r.is_json /\ r.source_zip
       THEN \* form data with a ZIP upload: lines 484-485
            /\ Return(w, Response(415, "zip_deprecated", FALSE))
            /\ UNCHANGED dirs
       ELSE \* with tempfile.TemporaryDirectory() as temp_dir: line 492
            /\ dirs' = dirs \cup {work_dir(w)}
            /\ pc' = [pc EXCEPT ![w] = "write_text"]
            /\ UNCHANGED result
    /\ UNCHANGED <<idx, saved_count, written, fs, needs_bib, full_log, calls>>

\* A compile request of the offline server, where check_auth and
\* consume_credit let every request through and touch nothing (lines 151-155,
\* 213-214), is taken up
CompileBegin(w) ==
    /\ pc[w] = "idle"
    /\ admitted < MaxRequests
    /\ admitted' = admitted + 1
    /\ \E r \in CompileRequests : CompileStart(w, r)
    /\ UNCHANGED saas

\* engine = data.get('engine', 'pdflatex'): lines 470, 480, 489
engine(w) == GetOr(req[w].engine, "pdflatex")

\* One iteration of "for filename, content in files_data.items()": lines 496-501
CompileWriteText(w) ==
    /\ pc[w] = "write_text"
    /\ idx[w] < Len(req[w].files)
    /\ LET e == req[w].files[idx[w] + 1]
           file_path == Join(work_dir(w), e.path)
       IN  IF CompileSkips(work_dir(w), e.path)
           THEN UNCHANGED <<fs, written>>
           ELSE /\ fs' = WriteFile(fs, Locate(file_path), e.content)
                /\ written' = [written EXCEPT ![w] = @ \cup {Locate(file_path)}]
    /\ idx' = [idx EXCEPT ![w] = @ + 1]
    /\ UNCHANGED <<pc, req, saved_count, dirs, main_file, needs_bib, full_log, calls,
                   result, admitted>>
    /\ UNCHANGED saas

CompileWriteTextDone(w) ==
    /\ pc[w] = "write_text"
    /\ idx[w] = Len(req[w].files)
    /\ pc' = [pc EXCEPT ![w] = "write_binary"]
    /\ idx' = [idx EXCEPT ![w] = 0]
    /\ UNCHANGED <<req, saved_count, written, fs, dirs, main_file, needs_bib,
                   full_log, calls, result, admitted>>
    /\ UNCHANGED saas

\* One iteration of "for filename, b64_content in binary_files_data.items()":
\* lines 504-514
CompileWriteBinary(w) ==
    /\ pc[w] = "write_binary"
    /\ idx[w] < Len(req[w].binaryFiles)
    /\ LET e == req[w].binaryFiles[idx[w] + 1]
           file_path == Join(work_dir(w), e.path)
           b64 == StripHeader(e.content)
       IN  IF CompileSkips(work_dir(w), e.path)
           THEN UNCHANGED <<fs, written>>
           ELSE /\ written' = [written EXCEPT ![w] = @ \cup {Locate(file_path)}]
                /\ fs' = WriteFile(fs, Locate(file_path),
                                   IF B64Decodes(b64) THEN "bin" ELSE "empty")
    /\ idx' = [idx EXCEPT ![w] = @ + 1]
    /\ UNCHANGED <<pc, req, saved_count, dirs, main_file, needs_bib, full_log, calls,
                   result, admitted>>
    /\ UNCHANGED saas

CompileWriteBinaryDone(w) ==
    /\ pc[w] = "write_binary"
    /\ idx[w] = Len(req[w].binaryFiles)
    /\ pc' = [pc EXCEPT ![w] = "main_file"]
    /\ idx' = [idx EXCEPT ![w] = 0]
    /\ UNCHANGED <<req, saved_count, written, fs, dirs, main_file, needs_bib,
                   full_log, calls, result, admitted>>
    /\ UNCHANGED saas

\* "3. Ensure we have a main file": lines 517-536.  glob yields the files in
\* the order the directory lists them, which is any order.
ResolveMain(w) ==
    /\ pc[w] = "main_file"
    /\ LET tex_files == TexFiles(fs, work_dir(w))
           with_class == {l \in tex_files : fs[l] = "doc"}
       IN  IF Exists(fs, dirs, Join(work_dir(w), main_file[w]))
           THEN /\ pc' = [pc EXCEPT ![w] = "pass1"]
                /\ UNCHANGED <<main_file, result, fs, dirs>>
           ELSE IF with_class # {}
           THEN /\ \E l \in with_class :
                      main_file' = [main_file EXCEPT ![w] = RelativeTo(l, work_dir(w))]
                /\ pc' = [pc EXCEPT ![w] = "pass1"]
                /\ UNCHANGED <<result, fs, dirs>>
           ELSE IF tex_files # {}
           THEN /\ \E l \in tex_files :
                      main_file' = [main_file EXCEPT ![w] = RelativeTo(l, work_dir(w))]
                /\ pc' = [pc EXCEPT ![w] = "pass1"]
                /\ UNCHANGED <<result, fs, dirs>>
           ELSE /\ Return(w, Response(400, "main_not_found", FALSE))
                /\ LeaveTempDir(w)
                /\ UNCHANGED main_file
    /\ UNCHANGED <<req, idx, saved_count, written, needs_bib, full_log, calls, admitted>>
    /\ UNCHANGED saas

\* ---------------------------------------------------- the external toolchain

\* Exit statuses of a tool that ran to its end: 0, or 1 for any non-zero one.
ExitCodes == {0, 1}

\* What the engine leaves as <stem>.aux: nothing, or a file without or with
\* the \citation or \bibdata lines.
AuxContents == {"none", "aux", "aux_citation", "aux_bibdata"}

\* One subprocess.run call and what came of it.  outcome: "notfound" (the
\* executable does not resolve: FileNotFoundError), "timeout"
\* (subprocess.TimeoutExpired) or "exited".  rerun and undef tell whether
\* stdout holds 'Rerun to get cross-references right' and 'There were
\* undefined references'; aux and pdf are the files as the call left them.
Call(t, x, o, c, r, u, a, p) ==
    [tool |-> t, exe |-> x, outcome |-> o, exit |-> c, rerun |-> r, undef |-> u,
     aux |-> a, pdf |-> p]

\* The file at loc after a tool left it with content c ("none": no file)
SetFile(f, loc, c) ==
    IF c = "none"
    THEN [l \in DOMAIN f \ {loc} |-> f[l]]
    ELSE WriteFile(f, loc, c)

ContentAt(f, loc) == IF loc \in DOMAIN f THEN f[loc] ELSE "none"

\* A call that did not run to its end leaves the files as they are.
Failed(w, t, x, o) ==
    Call(t, x, o, 1, FALSE, FALSE, ContentAt(fs, Locate(aux_file(w))),
         Locate(pdf_path(w)) \in DOMAIN fs)

\* The outer "except Exception": lines 639-641
\* InternalError as it would be without the "except Exception" of line 639:
\* the exception leaves the handler and no response is made by it.
InternalErrorEscapes(w) ==
    /\ pc' = [pc EXCEPT ![w] = "done"]
    /\ UNCHANGED result
    /\ LeaveTempDir(w)

InternalError(w) ==
    /\ Return(w, Response(500, "internal", FALSE))
    /\ LeaveTempDir(w)

\* What a pass answers when subprocess.run raises TimeoutExpired: Pass 1
\* catches it (lines 567-568); Pass 2 and Pass 3 have no handler of their
\* own, so it reaches the outer "except Exception" (lines 639-641).
TimeoutResponse(pass) ==
    IF pass = 1
    THEN Response(408, "timeout", FALSE)
    ELSE Response(500, "internal", FALSE)

\* --- Pass 1 ---: lines 557-568
Pass1(w) ==
    /\ pc[w] = "pass1"
    /\ \/ /\ calls' = [calls EXCEPT ![w] = Append(@, Failed(w, "engine", engine(w), "notfound"))]
          /\ InternalError(w)
          /\ UNCHANGED full_log
       \/ /\ calls' = [calls EXCEPT ![w] = Append(@, Failed(w, "engine", engine(w), "timeout"))]
          /\ Return(w, TimeoutResponse(1))
          /\ LeaveTempDir(w)
          /\ UNCHANGED full_log
       \/ \E c \in ExitCodes, a \in AuxContents, p \in BOOLEAN :
             /\ calls' = [calls EXCEPT ![w] =
                            Append(@, Call("engine", engine(w), "exited", c, FALSE, FALSE, a, p))]
             /\ fs' = SetFile(SetFile(fs, Locate(aux_file(w)), a), Locate(pdf_path(w)),
                              IF p THEN "pdf" ELSE "none")
             /\ full_log' = [full_log EXCEPT ![w] = Append(@, "--- Pass 1 ---")]
             /\ pc' = [pc EXCEPT ![w] = "check_bibtex"]
             /\ UNCHANGED <<dirs, result>>
    /\ UNCHANGED <<req, idx, saved_count, written, main_file, needs_bib, admitted>>
    /\ UNCHANGED saas

\* NeedsBib as it would be if only the \citation lines were looked for
NeedsBibCitationOnly(aux_content) == aux_content = "aux_citation"

\* '\\citation' in aux_content or '\\bibdata' in aux_content: line 576
NeedsBib(aux_content) == aux_content \in {"aux_citation", "aux_bibdata"}

\* --- Check BibTeX ---: lines 571-578
CheckBibTeX(w) ==
    /\ pc[w] = "check_bibtex"
    /\ LET found == /\ Exists(fs, dirs, aux_file(w))
                    /\ NeedsBib(ContentAt(fs, Locate(aux_file(w))))
       IN  /\ needs_bib' = [needs_bib EXCEPT ![w] = found]
           /\ pc' = [pc EXCEPT ![w] = IF found THEN "bibtex" ELSE "pass2"]
    /\ UNCHANGED <<req, idx, saved_count, written, fs, dirs, main_file, full_log,
                   calls, result, admitted>>
    /\ UNCHANGED saas

\* BibTeXCaught as it would be with the "except FileNotFoundError" alone
BibTeXCaughtNotFoundOnly(outcome) == outcome = "notfound"

\* The exceptions of the bibtex call that lines 592-595 catch:
\* FileNotFoundError, and every other Exception, TimeoutExpired among them.
BibTeXCaught(outcome) == outcome \in {"notfound", "timeout"}

\* Running BibTeX: lines 580-595
BibTeX(w) ==
    /\ pc[w] = "bibtex"
    /\ \/ \E c \in ExitCodes :
             /\ calls' = [calls EXCEPT ![w] =
                            Append(@, [Failed(w, "bibtex", "bibtex", "exited") EXCEPT !.exit = c])]
             /\ full_log' = [full_log EXCEPT ![w] = Append(@, "--- BibTeX ---")]
             /\ pc' = [pc EXCEPT ![w] = "pass2"]
             /\ UNCHANGED <<fs, dirs, result>>
       \/ \E o \in {"notfound", "timeout"} :
             /\ calls' = [calls EXCEPT ![w] = Append(@, Failed(w, "bibtex", "bibtex", o))]
             /\ IF BibTeXCaught(o)
                THEN /\ full_log' = [full_log EXCEPT ![w] =
                                       Append(@, IF o = "notfound"
                                                 THEN "[WARN] BibTeX not found/installed."
                                                 ELSE "[WARN] BibTeX error")]
                     /\ pc' = [pc EXCEPT ![w] = "pass2"]
                     /\ UNCHANGED <<fs, dirs, result>>
                ELSE /\ InternalError(w)
                     /\ UNCHANGED full_log
    /\ UNCHANGED <<req, idx, saved_count, written, main_file, needs_bib, admitted>>
    /\ UNCHANGED saas

\* RerunRequested as it would be if only the cross-reference line were looked for
RerunRequestedCrossRefOnly(r2) == r2.rerun

\* RerunRequested as it would be if a rerun were always asked for
RerunAlways(r2) == TRUE

\* The test of line 613 on r2.stdout
RerunRequested(r2) == r2.rerun \/ r2.undef

\* AfterPass2 as it would be if Pass 2 were repeated while a rerun is asked for
AfterPass2Again(r2) == IF RerunRequested(r2) THEN "pass2" ELSE "result"

\* Where Pass 2 leads: to the one further pass of lines 613-623, or to the result
AfterPass2(r2) == IF RerunRequested(r2) THEN "pass3" ELSE "result"

\* Pass 2, which no condition guards: lines 601-610, and the test of line 613
Pass2(w) ==
    /\ pc[w] = "pass2"
    /\ \/ /\ calls' = [calls EXCEPT ![w] = Append(@, Failed(w, "engine", engine(w), "notfound"))]
          /\ InternalError(w)
          /\ UNCHANGED full_log
       \/ /\ calls' = [calls EXCEPT ![w] = Append(@, Failed(w, "engine", engine(w), "timeout"))]
          /\ Return(w, TimeoutResponse(2))
          /\ LeaveTempDir(w)
          /\ UNCHANGED full_log
       \/ \E c \in ExitCodes, r \in BOOLEAN, u \in BOOLEAN, p \in BOOLEAN :
             LET r2 == Call("engine", engine(w), "exited", c, r, u,
                            ContentAt(fs, Locate(aux_file(w))), p)
             IN  /\ calls' = [calls EXCEPT ![w] = Append(@, r2)]
                 /\ fs' = SetFile(fs, Locate(pdf_path(w)), IF p THEN "pdf" ELSE "none")
                 /\ full_log' = [full_log EXCEPT ![w] = Append(@, "--- Pass 2 ---")]
                 /\ pc' = [pc EXCEPT ![w] = AfterPass2(r2)]
                 /\ UNCHANGED <<dirs, result>>
    /\ UNCHANGED <<req, idx, saved_count, written, main_file, needs_bib, admitted>>
    /\ UNCHANGED saas

\* Pass 3: lines 614-623
Pass3(w) ==
    /\ pc[w] = "pass3"
    /\ \/ /\ calls' = [calls EXCEPT ![w] = Append(@, Failed(w, "engine", engine(w), "notfound"))]
          /\ InternalError(w)
          /\ UNCHANGED full_log
       \/ /\ calls' = [calls EXCEPT ![w] = Append(@, Failed(w, "engine", engine(w), "timeout"))]
          /\ Return(w, TimeoutResponse(3))
          /\ LeaveTempDir(w)
          /\ UNCHANGED full_log
       \/ \E c \in ExitCodes, p \in BOOLEAN :
             /\ calls' = [calls EXCEPT ![w] =
                            Append(@, Call("engine", engine(w), "exited", c, FALSE, FALSE,
                                           ContentAt(fs, Locate(aux_file(w))), p))]
             /\ fs' = SetFile(fs, Locate(pdf_path(w)), IF p THEN "pdf" ELSE "none")
             /\ full_log' = [full_log EXCEPT ![w] = Append(@, "--- Pass 3 ---")]
             /\ pc' = [pc EXCEPT ![w] = "result"]
             /\ UNCHANGED <<dirs, result>>
    /\ UNCHANGED <<req, idx, saved_count, written, main_file, needs_bib, admitted>>
    /\ UNCHANGED saas

\* PdfBuilt as it would be if a non-zero exit of the last pass failed the build
PdfBuiltAndExitZero(w) ==
    Exists(fs, dirs, pdf_path(w)) /\ calls[w][Len(calls[w])].exit = 0

\* The test of line 629: the build succeeded when the PDF is there.
PdfBuilt(w) == Exists(fs, dirs, pdf_path(w))

\* "5. Return Result": lines 626-637
ReturnResult(w) ==
    /\ pc[w] = "result"
    /\ IF PdfBuilt(w)
       THEN Return(w, Response(200, "pdf", FALSE))
       ELSE Return(w, Response(400, "no_pdf", TRUE))
    /\ LeaveTempDir(w)
    /\ UNCHANGED <<req, idx, saved_count, written, main_file, needs_bib, full_log,
                   calls, admitted>>
    /\ UNCHANGED saas

compile_real_logic(w) ==
    \/ CompileBegin(w)
    \/ CompileWriteText(w)
    \/ CompileWriteTextDone(w)
    \/ CompileWriteBinary(w)
    \/ CompileWriteBinaryDone(w)
    \/ ResolveMain(w)
    \/ Pass1(w)
    \/ CheckBibTeX(w)
    \/ BibTeX(w)
    \/ Pass2(w)
    \/ Pass3(w)
    \/ ReturnResult(w)


\* ---------------------------------------------- the handlers behind check_auth

\* The variables of compile_real_logic and api_sync_files other than pc and result
build == <<req, idx, saved_count, written, fs, dirs, main_file, needs_bib,
           full_log, calls>>

\* check_auth, lines 150-170: the uid the handler is run for, or no uid when
\* the request is answered 401
Authenticate(h) ==
    IF ~online THEN {LocalDevUser}
    ELSE IF ~HasBearer(h) THEN {}
    ELSE verify_id_token(h.token)

\* The 401 answers of check_auth: lines 161, 170
Unauthorized(h) ==
    IF ~HasBearer(h)
    THEN Response(401, "no_token", FALSE)
    ELSE Response(401, "bad_token", FALSE)

\* A request for route r with header h and plan p reaches check_auth
Arrive(w, r, h, p) ==
    /\ pc[w] = "idle"
    /\ admitted < MaxRequests
    /\ admitted' = admitted + 1
    /\ http' = [http EXCEPT ![w] = Http(r, h, p)]

\* ref.get() on users/{uid}/credits: the credits key alone
Credits(rec) == User(rec.credits, {}, {}, {})

\* data.get(key, default) on a key that holds no value or one
ValueOr(v, default) == IF v = {} THEN default ELSE CHOOSE x \in v : TRUE

\* HasCredit as it would be if a balance of 0 still paid for a build
HasCreditOrNone(current) == current >= 0

\* "if current > 0": line 232
HasCredit(current) == current > 0

\* POST /api/compile: check_auth, then consume_credit up to its ref.get()
\* (lines 150-170, 389-392, 213-228).  Offline, consume_credit returns True
\* at once and reads nothing.
ApiCompileBegin(w) ==
    /\ \E h \in Authorizations :
          /\ Arrive(w, "/api/compile", h, {})
          /\ IF Authenticate(h) = {}
             THEN /\ Return(w, Unauthorized(h))
                  /\ UNCHANGED <<user, got>>
             ELSE \E uid \in Authenticate(h) :
                     /\ user' = [user EXCEPT ![w] = uid]
                     /\ IF online
                        THEN /\ got' = [got EXCEPT ![w] = Credits(db[uid])]
                             /\ pc' = [pc EXCEPT ![w] = "consume"]
                        ELSE /\ pc' = [pc EXCEPT ![w] = "compile"]
                             /\ UNCHANGED got
                     /\ UNCHANGED result
    /\ UNCHANGED <<online, db, ledger>>
    /\ UNCHANGED build

\* consume_credit from the value it read on: lines 229-236, and the 403 of
\* api_compile, lines 394-398
ConsumeCredit(w) ==
    /\ pc[w] = "consume"
    /\ LET current == ValueOr(got[w].credits, PLANS["free"])
       IN  IF HasCredit(current)
           THEN /\ db' = [db EXCEPT ![user[w]].credits = {current - 1}]
                /\ ledger' = [ledger EXCEPT ![user[w]].spent = @ + 1]
                /\ pc' = [pc EXCEPT ![w] = "compile"]
                /\ UNCHANGED result
           ELSE /\ Return(w, Response(403, "no_credits", FALSE))
                /\ UNCHANGED <<db, ledger>>
    /\ UNCHANGED <<admitted, online, http, user, got>>
    /\ UNCHANGED build

\* The bodies a compile request that came through the credit gate carries
GatedRequests ==
    {CompileRequest("p", <<File(MainTex, "doc")>>, <<File(ImgPng, "hdr,b64")>>,
                    {}, {}, TRUE, FALSE),
     CompileRequest("p", << >>, << >>, {EmptyPath}, {}, TRUE, FALSE),
     CompileRequest("temp_project", << >>, << >>, {}, {}, FALSE, TRUE)}

\* "return compile_real_logic()", line 401: the build is entered
GatedCompileBegin(w) ==
    /\ pc[w] = "compile"
    /\ \E r \in GatedRequests : CompileStart(w, r)
    /\ UNCHANGED admitted
    /\ UNCHANGED saas

\* "return compile_real_logic()", line 401, as one step: the build reads and
\* writes nothing of the credit system and ends with one of its responses
CompileAtOnce(w) ==
    /\ pc[w] = "compile"
    /\ \E r \in StructuredResults : Return(w, r)
    /\ UNCHANGED admitted
    /\ UNCHANGED saas
    /\ UNCHANGED build

\* POST /api/compile with the build of compile_real_logic step by step
api_compile(w) ==
    \/ ApiCompileBegin(w)
    \/ ConsumeCredit(w)
    \/ GatedCompileBegin(w)
    \/ CompileWriteText(w)
    \/ CompileWriteTextDone(w)
    \/ CompileWriteBinary(w)
    \/ CompileWriteBinaryDone(w)
    \/ ResolveMain(w)
    \/ Pass1(w)
    \/ CheckBibTeX(w)
    \/ BibTeX(w)
    \/ Pass2(w)
    \/ Pass3(w)
    \/ ReturnResult(w)

\* POST /api/auth/sync: check_auth, then api_auth_sync up to user_ref.get()
\* (lines 250-262)
AuthSyncBegin(w) ==
    /\ \E h \in Authorizations :
          /\ Arrive(w, "/api/auth/sync", h, {})
          /\ IF Authenticate(h) = {}
             THEN /\ Return(w, Unauthorized(h))
                  /\ UNCHANGED <<user, got>>
             ELSE \E uid \in Authenticate(h) :
                     /\ user' = [user EXCEPT ![w] = uid]
                     /\ IF online
                        THEN /\ got' = [got EXCEPT ![w] = db[uid]]
                             /\ pc' = [pc EXCEPT ![w] = "auth_sync"]
                             /\ UNCHANGED result
                        ELSE /\ Return(w, Response(200, "auth_sync_mock", FALSE))
                             /\ UNCHANGED got
    /\ UNCHANGED <<online, db, ledger>>
    /\ UNCHANGED build

\* api_auth_sync from the user_data it read on: lines 264-290.  set()
\* replaces the node, update() writes the one key; the time is counted in
\* requests received.
AuthSyncWrite(w) ==
    /\ pc[w] = "auth_sync"
    /\ IF got[w] = NoUser
       THEN db' = [db EXCEPT ![user[w]] = Trial(admitted)]
       ELSE db' = [db EXCEPT ![user[w]].lastLogin = {admitted}]
    /\ Return(w, Response(200, "auth_sync", FALSE))
    /\ UNCHANGED <<admitted, online, http, user, got, ledger>>
    /\ UNCHANGED build

api_auth_sync(w) == AuthSyncBegin(w) \/ AuthSyncWrite(w)

\* GET /api/user/me: lines 299-341, one read of users/{uid}
api_user_me(w) ==
    /\ \E h \in Authorizations :
          /\ Arrive(w, "/api/user/me", h, {})
          /\ IF Authenticate(h) = {}
             THEN /\ Return(w, Unauthorized(h))
                  /\ UNCHANGED user
             ELSE \E uid \in Authenticate(h) :
                     /\ user' = [user EXCEPT ![w] = uid]
                     /\ IF online /\ db[uid] = NoUser
                        THEN Return(w, Response(404, "user_not_found", FALSE))
                        ELSE Return(w, Response(200, "user_me", FALSE))
    /\ UNCHANGED <<online, db, got, ledger>>
    /\ UNCHANGED build

\* add_credits of api_purchase: lines 361-374
add_credits(current_val, plan, credits_to_add) ==
    IF current_val = NoUser
    THEN User({credits_to_add}, {}, {}, {})
    ELSE [current_val EXCEPT
            !.credits = {ValueOr(current_val.credits, 0) + credits_to_add},
            !.plan = {plan},
            !.subscription = {Subscription(plan, "active", FALSE)}]

\* POST /api/subscription/purchase: lines 348-381; user_ref.transaction
\* reads and writes users/{uid} in one step
api_purchase(w) ==
    /\ \E h \in Authorizations, p \in PurchasePlans :
          /\ Arrive(w, "/api/subscription/purchase", h, p)
          /\ IF Authenticate(h) = {}
             THEN /\ Return(w, Unauthorized(h))
                  /\ UNCHANGED <<user, db, ledger>>
             ELSE \E uid \in Authenticate(h) :
                     /\ user' = [user EXCEPT ![w] = uid]
                     /\ IF online
                        THEN LET plan == ValueOr(p, "pro") IN
                             /\ db' = [db EXCEPT ![uid] =
                                         add_credits(@, plan, PlanCredits(plan))]
                             /\ ledger' = [ledger EXCEPT ![uid].bought =
                                             @ + PlanCredits(plan)]
                             /\ Return(w, Response(200, "purchase", FALSE))
                        ELSE /\ Return(w, Response(200, "purchase_mock", FALSE))
                             /\ UNCHANGED <<db, ledger>>
    /\ UNCHANGED <<online, got>>
    /\ UNCHANGED build

\* ---------------------------------------------------------- specifications

\* A compile request works in a TemporaryDirectory of its own and shares no
\* state with any other request: one worker serving compile requests one
\* after the other shows all that a compile request can do.
Next == compile_real_logic("w1") \/ Finish("w1")

Spec == Init /\ [][Next]_vars

\* Flask serves each request on a thread of its own, and no handler takes a
\* lock: the steps of two api_sync_files requests interleave freely.
NextSync == \E w \in Workers : api_sync_files(w) \/ Finish(w)

SpecSync == Init /\ [][NextSync]_vars

\* The server with or without Firebase, over a database that holds some
\* record of user "u" or none
InitSaaS ==
    /\ InitHandlers
    /\ online \in BOOLEAN
    /\ db \in {[u \in Uids |-> IF u = "u" THEN r ELSE NoUser] : r \in InitialUsers}
    /\ ledger = [u \in Uids |-> Began(db[u])]

\* Compile requests through check_auth and the credit gate, one after the
\* other, each with its whole build
NextGate == api_compile("w1") \/ Finish("w1")

SpecGate == InitSaaS /\ [][NextGate]_vars

\* The handlers that read and write the database, served concurrently: no
\* handler takes a lock, and between a ref.get() and the set() that follows
\* it any step of another request may come.
NextCredits ==
    \E w \in Workers :
        \/ ApiCompileBegin(w)
        \/ ConsumeCredit(w)
        \/ CompileAtOnce(w)
        \/ api_auth_sync(w)
        \/ api_user_me(w)
        \/ api_purchase(w)
        \/ Finish(w)

SpecCredits == InitSaaS /\ [][NextCredits]_vars



\* ------------------------------------------------------------------ claims

Last(q) == q[Len(q)]

\* The engine passes of worker w's request, in order
EnginePasses(w) == SelectSeq(calls[w], LAMBDA c : c.tool = "engine")

\* The bibliography runs of worker w's request
BibRuns(w) == SelectSeq(calls[w], LAMBDA c : c.tool = "bibtex")

\* The request of worker w has been answered after its last pass ran to its end.
PipelineCompleted(w) ==
    /\ pc[w] = "done"
    /\ Len(EnginePasses(w)) >= 2
    /\ Last(calls[w]).tool = "engine"
    /\ Last(calls[w]).outcome = "exited"

\* The engine names the specification calls supported (spec section 4.3).
SupportedEngines == {"pdflatex", "xelatex", "lualatex"}

\* A path with a parent-traversal segment or an absolute prefix
BadPath(p) == is_absolute(p) \/ \E i \in 1..Len(p) : p[i] = DotDot

\* The fileset of a request holds an entry with such a path.
HasBadPath(r) ==
    \/ \E i \in 1..Len(r.files) : BadPath(r.files[i].path)
    \/ \E i \in 1..Len(r.binaryFiles) : BadPath(r.binaryFiles[i].path)

\* C1. A fileset with an absolute or parent-traversal path is rejected as a
\* whole: the request writes no file at all, not even for its valid entries,
\* and is not answered with success.
C1_BadDeltaRejectedWhole ==
    \A w \in Workers :
        (req[w].handler \in {"sync", "compile"} /\ HasBadPath(req[w]))
            => /\ written[w] = {}
               /\ (pc[w] = "done" => result[w].status # 200)

\* C2. When the pipeline ran to its final pass, the build is a success if and
\* only if the PDF was there after that pass, whatever the exit statuses
\* were; without the PDF the answer is the compilation failure.
C2_SuccessIffArtifact ==
    \A w \in Workers :
        PipelineCompleted(w)
            => /\ (result[w] = Response(200, "pdf", FALSE)) <=> Last(calls[w]).pdf
               /\ ~Last(calls[w]).pdf => result[w] = Response(400, "no_pdf", TRUE)

\* A build succeeded although its last pass exited with a non-zero status.
C2_Witness ==
    /\ PipelineCompleted("w1")
    /\ Last(calls["w1"]).exit = 1
    /\ Last(calls["w1"]).pdf
    /\ result["w1"].kind = "pdf"

\* C3. An engine pass that times out ends the build at once with the timeout
\* error: it is the last call of the request and the answer is the timeout
\* response, neither a success nor an internal error.
C3_TimeoutIsTimeoutError ==
    \A w \in Workers :
        \A i \in 1..Len(calls[w]) :
            (calls[w][i].tool = "engine" /\ calls[w][i].outcome = "timeout")
                => /\ i = Len(calls[w])
                   /\ pc[w] = "done"
                   /\ result[w].kind = "timeout"

\* C4. Whenever Pass 1 ran to its end, a second engine pass is started, after
\* the bibliography run if there was one, with or without citations and
\* whether or not the bibliography run failed.
C4_Pass2AlwaysRuns ==
    \A w \in Workers :
        (/\ Len(calls[w]) >= 1
         /\ calls[w][1].outcome = "exited"
         /\ pc[w] \in {"pass3", "result", "done"})
            => /\ Len(EnginePasses(w)) >= 2
               /\ \E i \in 2..Len(calls[w]) :
                     /\ calls[w][i].tool = "engine"
                     /\ \A j \in 2..(i - 1) : calls[w][j].tool = "bibtex"

\* A request whose bibliography run failed and whose Pass 2 ran all the same.
C4_Witness ==
    /\ pc["w1"] = "done"
    /\ Len(calls["w1"]) >= 3
    /\ calls["w1"][2].tool = "bibtex"
    /\ calls["w1"][2].outcome = "timeout"
    /\ calls["w1"][3].tool = "engine"
    /\ calls["w1"][3].outcome = "exited"

\* The minimal build of C5: a JSON request with main.tex alone, holding the
\* document class, no main file or engine named, whose passes (if any) leave
\* no citation in the auxiliary file and print no rerun marker.
MinimalBuild(w) ==
    /\ req[w].handler = "compile"
    /\ req[w].is_json
    /\ req[w].files = <<File(MainTex, "doc")>>
    /\ req[w].binaryFiles = << >>
    /\ req[w].mainFile = {}
    /\ req[w].engine = {}
    /\ \A i \in 1..Len(calls[w]) :
          /\ calls[w][i].outcome = "exited"
          /\ ~calls[w][i].rerun
          /\ ~calls[w][i].undef
          /\ calls[w][i].aux \in {"none", "aux"}

\* C5. The minimal build ends in success after exactly one engine pass.
C5_MinimalBuildOnePass ==
    \A w \in Workers :
        (pc[w] = "done" /\ MinimalBuild(w))
            => /\ result[w].kind = "pdf"
               /\ Len(EnginePasses(w)) = 1

\* C6. Pass 3 runs if and only if the output of Pass 2 holds the rerun marker
\* or the undefined-references marker, it runs once, and there is never a
\* fourth engine pass.
C6_RerunPolicy ==
    \A w \in Workers :
        /\ Len(EnginePasses(w)) <= 3
        /\ (/\ Len(EnginePasses(w)) >= 2
            /\ EnginePasses(w)[2].outcome = "exited"
            /\ pc[w] \in {"result", "done"})
              => (Len(EnginePasses(w)) = 3
                    <=> (EnginePasses(w)[2].rerun \/ EnginePasses(w)[2].undef))

\* Pass 3 ran on the undefined-references marker alone.
C6_Witness ==
    /\ pc["w1"] = "done"
    /\ Len(EnginePasses("w1")) = 3
    /\ EnginePasses("w1")[2].undef
    /\ ~EnginePasses("w1")[2].rerun
    /\ EnginePasses("w1")[3].outcome = "exited"

\* C7. A request that names an unsupported engine, or whose engine does not
\* resolve on the host, ends with a configuration error and without any
\* subprocess call.
C7_BadEngineNoSubprocess ==
    \A w \in Workers :
        (/\ pc[w] = "done"
         /\ req[w].handler = "compile"
         /\ ~(~req[w].is_json /\ req[w].source_zip)
         /\ \/ engine(w) \notin SupportedEngines
            \/ \E i \in 1..Len(calls[w]) :
                  calls[w][i].tool = "engine" /\ calls[w][i].outcome = "notfound")
            => /\ result[w].kind = "configuration_error"
               /\ calls[w] = << >>

\* C8. Every engine pass runs an executable of the supported set.
C8_OnlySupportedEnginesRun ==
    \A w \in Workers :
        \A i \in 1..Len(calls[w]) :
            calls[w][i].tool = "engine" => calls[w][i].exe \in SupportedEngines

\* Worker w is writing files or compiling.
Working(w) == pc[w] \notin {"idle", "done"}

\* C9. No two requests for the same project identifier are writing files or
\* compiling at the same time.
C9_SameProjectExclusive ==
    \A w \in Workers, v \in Workers :
        (w # v /\ Working(w) /\ Working(v)) => req[w].projectId # req[v].projectId

\* C10. The bibliography processor runs at most once, between Pass 1 and
\* Pass 2, exactly when the auxiliary file Pass 1 left holds a citation
\* marker; each of its failures is in the log, Pass 2 follows it, and the
\* artifact decides the outcome all the same.
C10_BibliographyPass ==
    \A w \in Workers :
        /\ Len(BibRuns(w)) <= 1
        /\ \A i \in 1..Len(calls[w]) :
              calls[w][i].tool = "bibtex"
                  => /\ i = 2
                     /\ calls[w][1].tool = "engine"
                     /\ calls[w][1].outcome = "exited"
                     /\ Len(full_log[w]) >= 2
                     /\ full_log[w][2] =
                           CASE calls[w][i].outcome = "exited" -> "--- BibTeX ---"
                             [] calls[w][i].outcome = "notfound" -> "[WARN] BibTeX not found/installed."
                             [] OTHER -> "[WARN] BibTeX error"
                     /\ pc[w] \in {"pass2", "pass3", "result", "done"}
                     /\ pc[w] # "pass2"
                           => (Len(calls[w]) >= 3 /\ calls[w][3].tool = "engine")
        /\ (/\ Len(calls[w]) >= 1
            /\ calls[w][1].outcome = "exited"
            /\ pc[w] \in {"pass2", "pass3", "result", "done"})
              => (Len(BibRuns(w)) = 1
                    <=> calls[w][1].aux \in {"aux_citation", "aux_bibdata"})
        /\ (PipelineCompleted(w) /\ Len(BibRuns(w)) = 1)
              => (result[w].kind = "pdf" <=> Last(calls[w]).pdf)

\* The bibliography processor did not resolve on a \bibdata line, Pass 2 ran
\* and the build succeeded.
C10_Witness ==
    /\ PipelineCompleted("w1")
    /\ calls["w1"][1].aux = "aux_bibdata"
    /\ calls["w1"][2].tool = "bibtex"
    /\ calls["w1"][2].outcome = "notfound"
    /\ result["w1"].kind = "pdf"

\* The bibliography processor was run for worker w's request and failed: it
\* was not found, timed out, or exited with a non-zero code.
BibFailed(w) ==
    /\ Len(calls[w]) >= 2
    /\ calls[w][2].tool = "bibtex"
    /\ (calls[w][2].outcome # "exited" \/ calls[w][2].exit # 0)

\* Pass 2 of worker w's request ran to its end.
Pass2Exited(w) ==
    /\ Len(EnginePasses(w)) >= 2
    /\ EnginePasses(w)[2].outcome = "exited"

\* C11, as stated. Whenever the bibliography processor was run and failed, a
\* third engine pass is run after Pass 2, whatever Pass 2's output holds.
C11_FailedBibForcesPass3 ==
    \A w \in Workers :
        (BibFailed(w) /\ Pass2Exited(w) /\ pc[w] \in {"result", "done"})
            => Len(EnginePasses(w)) = 3

\* C11, amended. A failed bibliography run is still followed by Pass 2, and
\* it has no part in the rerun decision: after it, a third pass is run if and
\* only if Pass 2's output holds a rerun or undefined-references marker.
C11_FailedBibStillPass2 ==
    \A w \in Workers :
        BibFailed(w)
            => /\ pc[w] \in {"pass2", "pass3", "result", "done"}
               /\ pc[w] # "pass2" => Len(EnginePasses(w)) >= 2
               /\ (Pass2Exited(w) /\ pc[w] \in {"result", "done"})
                     => (Len(EnginePasses(w)) = 3
                           <=> (EnginePasses(w)[2].rerun \/ EnginePasses(w)[2].undef))

\* The bibliography processor failed, Pass 2 printed no marker, and the
\* request was answered after two engine passes.
C11_Witness ==
    /\ BibFailed("w1")
    /\ calls["w1"][2].outcome = "exited"
    /\ Pass2Exited("w1")
    /\ ~EnginePasses("w1")[2].rerun
    /\ ~EnginePasses("w1")[2].undef
    /\ pc["w1"] = "done"
    /\ Len(EnginePasses("w1")) = 2

\* The tools of the calls of worker w's request, in order
Tools(w) == [i \in 1..Len(calls[w]) |-> calls[w][i].tool]

\* The orders in which one build may invoke its tools
PipelineOrders ==
    {<<"engine", "engine">>,
     <<"engine", "bibtex", "engine">>,
     <<"engine", "engine", "engine">>,
     <<"engine", "bibtex", "engine", "engine">>}

\* q is an initial part of r
IsPrefix(q, r) == Len(q) <= Len(r) /\ \A i \in 1..Len(q) : q[i] = r[i]

\* C12. The calls of one build follow Pass1, [bibliography], Pass2, [Pass3]:
\* the first call is the engine, the bibliography processor runs at most once
\* and only between Pass 1 and Pass 2, a third engine pass comes only after
\* Pass 2, the engine runs at most three times, each call is made from the
\* stage it belongs to, and an answered request makes no further call.
C12_PipelineOrdering ==
    /\ [](\A w \in Workers :
            /\ \E o \in PipelineOrders : IsPrefix(Tools(w), o)
            /\ Len(EnginePasses(w)) <= 3
            /\ Len(BibRuns(w)) <= 1
            /\ pc[w] \in {"idle", "write_text", "write_binary", "main_file", "pass1"}
                  => calls[w] = << >>
            /\ pc[w] \in {"check_bibtex", "bibtex"} => Tools(w) = <<"engine">>
            /\ pc[w] = "pass2" => Tools(w) \in {<<"engine">>, <<"engine", "bibtex">>}
            /\ pc[w] = "pass3" => Len(EnginePasses(w)) = 2)
    /\ [][\A w \in Workers :
            pc[w] = "done" => (calls'[w] = calls[w] \/ calls'[w] = << >>)]_vars

\* A build that made all four calls, the bibliography processor second, and
\* was answered.
C12_Witness ==
    /\ pc["w1"] = "done"
    /\ Tools("w1") = <<"engine", "bibtex", "engine", "engine">>

\* Worker w's JSON compile request has been answered.
Answered(w) ==
    /\ pc[w] = "done"
    /\ req[w].handler = "compile"
    /\ req[w].is_json

\* C13. A delta-mode request for a project that has no workspace is answered
\* with a cache miss: no workspace is made for it, it is not handled as an
\* empty project and no tool is invoked.
C13_DeltaWithoutWorkspaceIsCacheMiss ==
    \A w \in Workers :
        (/\ Answered(w)
         /\ req[w].delta
         /\ ~Exists(fs, dirs, ProjectsCacheDir(req[w].projectId)))
            => /\ result[w].kind = "cache_miss"
               /\ calls[w] = << >>

\* The workspace a request's fileset describes: its entries with a valid
\* relative path, as records of path and content
Fileset(r) ==
    {r.files[i] : i \in {j \in 1..Len(r.files) : ~BadPath(r.files[j].path)}}

\* The paths of that workspace
FilesetPaths(r) == {f.path : f \in Fileset(r)}

\* Its .tex documents, and those among them that hold the document class
FilesetTex(r) == {f.path : f \in {g \in Fileset(r) : Last(g.path).ext = "tex"}}
FilesetWithClass(r) ==
    {f.path : f \in {g \in Fileset(r) : Last(g.path).ext = "tex" /\ g.content = "doc"}}

\* The request names a main file that its fileset holds.
HintInFileset(r) == \E h \in r.mainFile : h \in FilesetPaths(r)

\* Its fileset holds a file named main.tex, at the root or below it.
MainNamedInFileset(r) == \E q \in FilesetPaths(r) : Last(q) = Seg("main", "tex")

\* The request was taken through main-file detection with q as its main file.
ResolvedTo(w, q) == main_file[w] = q /\ result[w].kind # "main_not_found"

\* C14. Whenever the hinted path is a file of the request's workspace, the
\* hinted path is the main file, whatever other files the workspace holds.
C14_HintedFileWins ==
    \A w \in Workers :
        (Answered(w) /\ HintInFileset(req[w]))
            => \A h \in req[w].mainFile : ResolvedTo(w, h)

\* C15. Whenever no hint is given, or the hinted file is not in the
\* workspace, and the workspace has main.tex at its root, the root main.tex
\* is the main file, before any other file.
C15_RootMainTexWins ==
    \A w \in Workers :
        (/\ Answered(w)
         /\ ~HintInFileset(req[w])
         /\ MainTex \in FilesetPaths(req[w]))
            => ResolvedTo(w, MainTex)

\* C16. When the workspace has neither the hinted file nor a file named
\* main.tex: a .tex file with the document class is chosen if there is one,
\* otherwise some .tex file, and with no .tex file at all the request fails
\* as not found without a tool being invoked.
C16_ContentInspectionThenAnyTex ==
    \A w \in Workers :
        (/\ Answered(w)
         /\ ~HintInFileset(req[w])
         /\ ~MainNamedInFileset(req[w]))
            => /\ FilesetWithClass(req[w]) # {}
                     => \E q \in FilesetWithClass(req[w]) : ResolvedTo(w, q)
               /\ (FilesetWithClass(req[w]) = {} /\ FilesetTex(req[w]) # {})
                     => \E q \in FilesetTex(req[w]) : ResolvedTo(w, q)
               /\ FilesetTex(req[w]) = {}
                     => (result[w].kind = "main_not_found" /\ calls[w] = << >>)

\* The relative paths of the model by their text, in lexicographic order
LexOrder == <<ChapterTex, ImgPng, MainTex, SubMainTex, OddTex>>

\* The lexicographically first path of a non-empty set of such paths
LexFirst(S) ==
    CHOOSE q \in S :
        \E i \in 1..Len(LexOrder) :
            /\ LexOrder[i] = q
            /\ \A j \in 1..(i - 1) : LexOrder[j] \notin S

\* C17. When several .tex files tie in main-file detection, all with the
\* document class or none with it, the lexicographically first relative
\* path is the main file, whatever the order of enumeration.
C17_LexicographicTieBreak ==
    \A w \in Workers :
        (/\ Answered(w)
         /\ ~HintInFileset(req[w])
         /\ ~MainNamedInFileset(req[w])
         /\ Cardinality(FilesetTex(req[w])) >= 2)
            => ResolvedTo(w, LexFirst(IF FilesetWithClass(req[w]) # {}
                                      THEN FilesetWithClass(req[w])
                                      ELSE FilesetTex(req[w])))

\* The project directory that api_sync_files keeps for a sync request
Workspace(r) == Locate(TargetDir(r.projectId))

\* No other request is at work on the project of worker w's request.
AloneOnProject(w) ==
    \A v \in Workers \ {w} :
        Working(v) => req[v].projectId # req[w].projectId

\* C18. Once a delta that deletes main.tex and adds chapter.tex, with the
\* document class, has been applied to a project, the project's workspace
\* holds chapter.tex and no deleted file: a deleted file is no candidate for
\* the main file any more.
C18_DeletedFileIsNoCandidate ==
    \A w \in Workers :
        (/\ pc[w] = "done"
         /\ req[w].handler = "sync"
         /\ req[w].delta
         /\ AloneOnProject(w))
            => /\ Workspace(req[w]) \o ChapterTex \in TexFiles(fs, Workspace(req[w]))
               /\ \A d \in req[w].deleted :
                     Workspace(req[w]) \o d \notin TexFiles(fs, Workspace(req[w]))

\* A binary entry of the request carries a payload that does not decode.
HasMalformedBinary(r) ==
    \E i \in 1..Len(r.binaryFiles) : ~B64Decodes(StripHeader(r.binaryFiles[i].content))

\* C19. A fileset with a malformed binary payload is rejected as a whole
\* before anything is changed: the request writes no file, text or binary,
\* and is not answered with success.
C19_MalformedBinaryRejectedWhole ==
    \A w \in Workers :
        (req[w].handler = "sync" /\ HasMalformedBinary(req[w]))
            => /\ written[w] = {}
               /\ pc[w] = "done" => result[w].status # 200

\* C20. Once a compile request has been answered, on whatever path, its
\* scratch directory and everything below it are gone.
C20_ScratchDirRemoved ==
    \A w \in Workers :
        pc[w] \in {"idle", "done"}
            => /\ work_dir(w) \notin dirs
               /\ \A l \in DOMAIN fs : ~Inside(l, work_dir(w))

\* A request answered with an error after Pass 2 timed out, whose Pass 1 had
\* left a PDF and an .aux file in the scratch directory.
C20_Witness ==
    /\ pc["w1"] = "done"
    /\ result["w1"].status = 500
    /\ Len(calls["w1"]) >= 2
    /\ calls["w1"][1].pdf
    /\ calls["w1"][1].aux # "none"
    /\ Last(calls["w1"]).outcome = "timeout"

\* Some call of worker w's request ran to its end and so produced output.
SomePassOutput(w) == \E i \in 1..Len(calls[w]) : calls[w][i].outcome = "exited"

\* C21. Whenever a build fails after at least one pass produced output, be
\* it by a compilation failure, a timeout or an internal error, the error
\* answered carries the log captured so far.
C21_FailureCarriesLog ==
    \A w \in Workers :
        (/\ pc[w] = "done"
         /\ req[w].handler = "compile"
         /\ result[w].status # 200
         /\ SomePassOutput(w))
            => result[w].logs

\* The stages of compile_real_logic, from the last one back to the first
StageOrder ==
    <<"done", "result", "pass3", "pass2", "bibtex", "check_bibtex", "pass1",
      "main_file", "write_binary", "write_text">>

\* How far worker w's request is from its answer: the stages still ahead of
\* it, and within a write loop the entries still to visit
Rank(w) ==
    LET stage == CHOOSE i \in 1..Len(StageOrder) : StageOrder[i] = pc[w]
        entries == Len(req[w].files) + Len(req[w].binaryFiles)
        ahead == CASE pc[w] = "write_text" -> Len(req[w].files) - idx[w]
                   [] pc[w] = "write_binary" -> Len(req[w].binaryFiles) - idx[w]
                   [] OTHER -> 0
    IN  stage * (entries + 1) + ahead

\* Worker w is serving a request that is not answered yet.
Serving(w) == pc[w] \notin {"idle", "done"}

\* C22. Every build request ends with exactly one structured result: a
\* request is answered if and only if it has such a result, and the result
\* once made is not replaced; a request that was taken up never hangs and
\* every step of it brings it nearer to its answer, whatever fails in it,
\* so that it is answered; and after the answer the worker can be freed for
\* the next request.
C22_OneStructuredResult ==
    /\ [](\A w \in Workers :
            /\ pc[w] = "done" <=> result[w] # NoResult
            /\ pc[w] = "done" => result[w] \in StructuredResults
            /\ Serving(w) => ENABLED compile_real_logic(w)
            /\ pc[w] = "done" => ENABLED Finish(w))
    /\ [][\A w \in Workers :
            /\ result[w] # NoResult => result'[w] \in {result[w], NoResult}
            /\ (Serving(w) /\ <<pc[w], idx[w]>>' # <<pc[w], idx[w]>>)
                  => Rank(w)' < Rank(w)]_vars

\* A request answered with the internal error after the engine of its third
\* pass could not be started, and the worker idle again after it.
C22_Witness ==
    /\ pc["w1"] = "done"
    /\ Len(calls["w1"]) >= 3
    /\ Last(calls["w1"]).outcome = "notfound"
    /\ result["w1"] = Response(500, "internal", FALSE)
    /\ admitted = 2

\* The stages of a build that compile_real_logic has been entered for
BuildStages ==
    {"write_text", "write_binary", "main_file", "pass1", "check_bibtex",
     "bibtex", "pass2", "pass3", "result"}

\* compile_real_logic has been entered for worker w's request.
BuildEntered(w) ==
    \/ pc[w] \in BuildStages
    \/ pc[w] = "done" /\ req[w].handler = "compile"

\* C23. Online, the build is entered only after consume_credit succeeded for
\* the user of the request: the balance it read, or the free plan's for none,
\* was positive and a credit of that user was consumed.  When consume_credit
\* fails the answer is 403 NO_CREDITS, and the request has written no file,
\* made no directory and invoked no tool.  Offline, consume_credit never
\* fails and no step changes the database.
C23_CreditGate ==
    /\ [](\A w \in Workers :
            /\ (online /\ (BuildEntered(w) \/ pc[w] = "compile"))
                  => /\ user[w] \in Uids
                     /\ ValueOr(got[w].credits, PLANS["free"]) > 0
                     /\ ledger[user[w]].spent >= 1
            /\ result[w].status = 403
                  => /\ result[w] = Response(403, "no_credits", FALSE)
                     /\ online
                     /\ ValueOr(got[w].credits, PLANS["free"]) <= 0
                     /\ ~BuildEntered(w)
                     /\ calls[w] = << >>
                     /\ written[w] = {}
                     /\ work_dir(w) \notin dirs
            /\ ~online
                  => /\ \A u \in Uids : ledger[u].spent = 0
                     /\ pc[w] \notin {"idle", "done"}
                           => (pc[w] = "compile" \/ BuildEntered(w)))
    /\ [][~online => db' = db]_vars

\* Online, user "u" paid the last credit for a build that ran the engine and
\* was answered with the PDF.
C23_Witness ==
    /\ online
    /\ pc["w1"] = "done"
    /\ user["w1"] = "u"
    /\ got["w1"].credits = {1}
    /\ db["u"].credits = {0}
    /\ result["w1"] = Response(200, "pdf", FALSE)
    /\ Len(calls["w1"]) >= 2

\* The balance the database holds for uid u, 0 when it holds none
Balance(u) == ValueOr(db[u].credits, 0)

\* C24. For every interleaving of consume_credit calls of one user the
\* stored balance is never negative, and the calls that returned success
\* are never more than the credits the user had: those begun with plus
\* those bought.  A call on a balance of 0 fails and leaves the balance.
C24_OneCreditPerSuccess ==
    /\ \A u \in Uids :
          /\ Balance(u) >= 0
          /\ ledger[u].spent <= ledger[u].start + ledger[u].bought
    /\ \A w \in Workers :
          (pc[w] = "done" /\ http[w].route = "/api/compile" /\ got[w].credits = {0})
              => result[w].status = 403

\* C25. The credits of a completed purchase are never lost or overwritten,
\* whatever consume_credit or api_auth_sync calls of the same user it is
\* interleaved with: the balance is never below the credits bought less the
\* credits consumed.
C25_PurchaseNeverLost ==
    \A u \in Uids : Balance(u) >= ledger[u].bought - ledger[u].spent

\* The header of worker w's request is a Bearer token that verifies.
TokenVerifies(w) ==
    /\ http[w].authorization.scheme = "Bearer"
    /\ http[w].authorization.token \in DOMAIN Issued

\* The body of the handler is or was run for worker w's request.
BodyRun(w) ==
    \/ pc[w] \in {"consume", "compile", "auth_sync"}
    \/ pc[w] = "done" /\ result[w].status # 401

\* C26. Online, the body of a protected handler is run only for a request
\* whose Authorization header is a Bearer token that verifies, and with
\* request.user the identity of that token; every other request is answered
\* 401 by a step that changes nothing stored: no user record, no credit, no
\* file.  Offline, every request is run as the local user.
C26_CheckAuth ==
    /\ [](\A w \in Workers :
            /\ (online /\ BodyRun(w))
                  => /\ TokenVerifies(w)
                     /\ user[w] = Issued[http[w].authorization.token]
            /\ (online /\ pc[w] # "idle" /\ ~TokenVerifies(w))
                  => /\ pc[w] = "done"
                     /\ result[w].status = 401
                     /\ user[w] = NoUid
            /\ (~online /\ pc[w] # "idle")
                  => /\ BodyRun(w)
                     /\ user[w] = LocalDevUser)
    /\ [][\A w \in Workers :
            (result[w] = NoResult /\ result'[w].status = 401)
                => (db' = db /\ ledger' = ledger /\ fs' = fs /\ dirs' = dirs)]_vars

\* Online, a purchase with the token of "v" was run as "v" while a request
\* with a token that does not verify was answered 401.
C26_Witness ==
    /\ online
    /\ pc["w1"] = "done"
    /\ http["w1"].route = "/api/subscription/purchase"
    /\ user["w1"] = "v"
    /\ db["v"] # NoUser
    /\ pc["w2"] = "done"
    /\ http["w2"].authorization = Header("Bearer", "expired")
    /\ result["w2"] = Response(401, "bad_token", FALSE)

\* C27. api_auth_sync writes the trial record only for a uid that has no
\* record, and for a user that exists it changes lastLogin alone, never
\* credits, plan or subscription, whatever other requests of the same uid
\* it is interleaved with.
C27_SyncWritesLastLoginOnly ==
    [][\A w \in Workers :
          (pc[w] = "auth_sync" /\ pc'[w] = "done" /\ db[user[w]] # NoUser)
              => db'[user[w]] =
                    [db[user[w]] EXCEPT !.lastLogin = db'[user[w]].lastLogin]]_vars

====
